---- MODULE Spec2Model ----
(***************************************************************************)
(* The chat coordinator of src/client/src/App.jsx: the in-memory tables    *)
(* users / messages / rooms, the socket.io handlers registered in          *)
(* io.on("connection") and the HTTP endpoints GET /messages, POST /rooms.  *)
(*                                                                         *)
(* The socket.io transport is modelled by what the handlers use of it:     *)
(* every socket is a member of the broadcast room named by its own id,     *)
(* socket.join / socket.leave edit the socket's room set, io.to(x).emit    *)
(* reaches the open sockets that are members of x, and a closing socket    *)
(* has left all its rooms before its "disconnect" handler runs.            *)
(*                                                                         *)
(* The browser client of the same file is modelled by its login state and  *)
(* its one socket: handleLogin, handleLogout, and the socket's connects.   *)
(***************************************************************************)
EXTENDS Integers, Sequences, FiniteSets, TLC

\* ------------------------------------------------------------ bounds
MaxMsgs == 1
MaxReactions == 1
MaxClock == 0

\* ------------------------------------------------------------ values
Undefined == "<undefined>"
Null == "<null>"
True == "<true>"
False == "<false>"

\* JavaScript truthiness of the values the model passes around
Falsy(v) == v \in {Undefined, Null, False, ""}

\* a || b
OrElse(a, b) == IF Falsy(a) THEN b ELSE a

SocketIds == {"s1", "s2", "s3"}

\* rooms a join may name (missing, so that the default applies, or named)
JoinRooms == {Undefined, "dev"}
\* inputs of the joinRoom event and of POST /rooms
RoomInputs == {"global", "dev"}
PostRoomNames == {"dev", ""}
Range(s) == {s[i] : i \in DOMAIN s}

VARIABLES
  connState,    \* socket id -> "idle" | "open" | "closed"
  socketRooms,  \* socket id -> the broadcast rooms the socket is a member of
  users,        \* the users object: entries in insertion order
  messages,     \* the messages array
  rooms,        \* the rooms array
  now,          \* the clock read by new Date()
  emitted,      \* the emits of the event handled last, each with its receivers
  ack,          \* what the event handled last passed to its callback
  fault,        \* an exception escaped a handler
  last,         \* the event handled last (its kind, socket and payload)
  target,       \* socket id -> room of its latest successful join / joinRoom
  response,     \* the HTTP response sent last
  query,        \* the query of the GET /messages handled last
  client        \* the browser client: React state and its socket

vars == <<connState, socketRooms, users, messages, rooms, now, emitted, ack,
          fault, last, target, response, query, client>>

NoAck == [none |-> TRUE]
NoResponse == [none |-> TRUE]
NoQuery == [none |-> TRUE]
NoData == [none |-> TRUE]

\* the client before login: useState defaults with an empty localStorage and
\* the socket made with autoConnect: false.  active is TRUE from
\* socket.connect() to socket.disconnect(), while the socket connects and
\* reconnects by itself; join is TRUE from the emit of handleLogin until
\* the join has left the socket's send buffer and been handled.
NoClient == [loggedIn |-> FALSE, active |-> FALSE, join |-> FALSE]

\* ------------------------------------------------------------ tables
\* users[socket.id]
HasUser(us, sid) == \E i \in DOMAIN us : us[i].sid = sid
UserOf(us, sid) == us[CHOOSE i \in DOMAIN us : us[i].sid = sid]

\* users[socket.id] = {username, room, lastSeen}: an existing key keeps its
\* place in the object, a new key goes last.  lastSeen is written here and
\* read nowhere, and is left out.
SetUser(us, sid, username, room) ==
  LET e == [sid |-> sid, username |-> username, room |-> room]
  IN IF HasUser(us, sid)
       THEN [i \in DOMAIN us |-> IF us[i].sid = sid THEN e ELSE us[i]]
       ELSE Append(us, e)

\* delete users[socket.id]
DeleteUser(us, sid) == SelectSeq(us, LAMBDA e : e.sid # sid)

\* Object.values(users).filter(u => u.room === room)
onlineUsersInRoom(us, room) ==
  LET inRoom == SelectSeq(us, LAMBDA e : e.room = room)
  IN [i \in DOMAIN inRoom |->
        [username |-> inRoom[i].username, room |-> inRoom[i].room]]

\* rooms.push(name) without the includes test
AddRoomAlways(rs, name) == Append(rs, name)

\* if (!rooms.includes(name)) rooms.push(name)
AddRoom(rs, name) == IF name \in Range(rs) THEN rs ELSE Append(rs, name)

\* ------------------------------------------------------------ transport
\* the sockets io.to(room) reaches
SocketsIn(cs, sr, room) == {s \in SocketIds : cs[s] = "open" /\ room \in sr[s]}

\* io.to(room).emit(event, payload)
IoToEmit(cs, sr, room, event, payload) ==
  [to |-> SocketsIn(cs, sr, room), event |-> event, payload |-> payload]

\* socket.emit(event, payload)
SocketEmit(sid, event, payload) ==
  [to |-> {sid}, event |-> event, payload |-> payload]

\* socket.to(room).emit(event, payload)
SocketToEmit(cs, sr, sid, room, event, payload) ==
  [to |-> SocketsIn(cs, sr, room) \ {sid}, event |-> event, payload |-> payload]

Event(op, sid, data) == [op |-> op, sid |-> sid, data |-> data]

\* ------------------------------------------------------------ initial state
Init ==
  /\ connState = [s \in SocketIds |-> "idle"]
  /\ socketRooms = [s \in SocketIds |-> {}]
  /\ users = <<>>
  /\ messages = <<>>
  /\ rooms = <<"global">>
  /\ now = 0
  /\ emitted = <<>>
  /\ ack = NoAck
  /\ fault = FALSE
  /\ last = Event("init", Null, NoData)
  /\ target = [s \in SocketIds |-> Null]
  /\ response = NoResponse
  /\ query = NoQuery
  /\ client = NoClient

\* ------------------------------------------------------------ handlers
\* io.on("connection"): the socket is open and in the room of its own id
Connection(sid) ==
  /\ ~fault
  /\ connState[sid] = "idle"
  /\ connState' = [connState EXCEPT ![sid] = "open"]
  /\ socketRooms' = [socketRooms EXCEPT ![sid] = {sid}]
  /\ emitted' = <<>>
  /\ ack' = NoAck
  /\ last' = Event("connection", sid, NoData)
  /\ response' = NoResponse
  /\ UNCHANGED <<users, messages, rooms, now, fault, target, query, client>>

\* the username test of the join handler
JoinRejects(username) == Falsy(username)

\* a join that adds an entry without looking for the socket's own
JoinUsersAppend(us, sid, username, room) ==
  Append(us, [sid |-> sid, username |-> username, room |-> room])

\* the users table after a successful join
JoinUsers(us, sid, username, room) == SetUser(us, sid, username, room)

\* socket.on("join")
Join(sid, username, roomArg) ==
  LET room == IF roomArg = Undefined THEN "global" ELSE roomArg
      us == JoinUsers(users, sid, username, room)
      sr == [socketRooms EXCEPT ![sid] = @ \cup {room}]
  IN /\ ~fault
     /\ connState[sid] = "open"
     /\ last' = Event("join", sid, [username |-> username, room |-> roomArg])
     /\ IF JoinRejects(username)
          THEN /\ ack' = [error |-> "Username required"]
               /\ emitted' = <<>>
               /\ UNCHANGED <<users, rooms, socketRooms, target>>
          ELSE /\ users' = us
               /\ rooms' = AddRoom(rooms, room)
               /\ socketRooms' = sr
               /\ emitted' =
                    << IoToEmit(connState, sr, room, "onlineUsers",
                                onlineUsersInRoom(us, room)),
                       IoToEmit(connState, sr, room, "notification",
                                [username |-> username, verb |-> "joined",
                                 room |-> room]) >>
               /\ ack' = [status |-> "ok"]
               /\ target' = [target EXCEPT ![sid] = room]
     /\ response' = NoResponse
     /\ UNCHANGED <<connState, messages, now, fault, query, client>>

\* the session table after a room change: u.room = room, in place
JoinRoomUsers(us, sid, room) == SetUser(us, sid, UserOf(us, sid).username, room)

\* the rooms array after joinRoom: the handler does not touch it
JoinRoomRooms(rs, room) == rs

\* the three emits of joinRoom.  `u.room = room` runs before them, so the
\* first, io.to(u.room), addresses the new room like the second.
JoinRoomEmits(cs, sr, us, sid, oldRoom, room) ==
  LET u == UserOf(us, sid)
  IN << IoToEmit(cs, sr, u.room, "onlineUsers", onlineUsersInRoom(us, u.room)),
        IoToEmit(cs, sr, room, "onlineUsers", onlineUsersInRoom(us, room)),
        IoToEmit(cs, sr, room, "notification",
                 [username |-> u.username, verb |-> "joined", room |-> room]) >>

\* socket.on("joinRoom")
JoinRoom(sid, room) ==
  /\ ~fault
  /\ connState[sid] = "open"
  /\ IF ~HasUser(users, sid)
       THEN /\ ack' = [error |-> "Not joined"]
            /\ emitted' = <<>>
            /\ last' = Event("joinRoom", sid, [room |-> room, from |-> Null])
            /\ UNCHANGED <<users, rooms, socketRooms, target>>
       ELSE LET oldRoom == UserOf(users, sid).room
                us == JoinRoomUsers(users, sid, room)
                sr == [socketRooms EXCEPT ![sid] = (@ \ {oldRoom}) \cup {room}]
            IN /\ users' = us
               /\ socketRooms' = sr
               /\ rooms' = JoinRoomRooms(rooms, room)
               /\ emitted' = JoinRoomEmits(connState, sr, us, sid, oldRoom, room)
               /\ ack' = [status |-> "ok"]
               /\ last' = Event("joinRoom", sid, [room |-> room, from |-> oldRoom])
               /\ target' = [target EXCEPT ![sid] = room]
  /\ response' = NoResponse
  /\ UNCHANGED <<connState, messages, now, fault, query, client>>

\* a message record whose id is the same for every message
NewMessageSameId(msgs, user, data, time) ==
  [id |-> 1,
   text |-> OrElse(data.text, ""),
   file |-> Null,
   sender |-> user.username,
   timestamp |-> time,
   room |-> user.room,
   isPrivate |-> ~Falsy(data.isPrivate),
   to |-> OrElse(data.to, Null),
   reactions |-> <<>>,
   readBy |-> <<>>,
   deliveredTo |-> <<>>]

\* the message record built by sendMessage; uuidv4() is a fresh id
NewMessage(msgs, user, data, time) ==
  [id |-> Len(msgs) + 1,
   text |-> OrElse(data.text, ""),
   file |-> Null,
   sender |-> user.username,
   timestamp |-> time,
   room |-> user.room,
   isPrivate |-> ~Falsy(data.isPrivate),
   to |-> OrElse(data.to, Null),
   reactions |-> <<>>,
   readBy |-> <<>>,
   deliveredTo |-> <<>>]

\* msg.isPrivate && msg.to
RoutedPrivately(msg) == msg.isPrivate /\ ~Falsy(msg.to)

\* the entries of users a filter keeps, as io.to(sid).emit calls in order
EmitToEach(cs, sr, entries, event, payload) ==
  [i \in DOMAIN entries |-> IoToEmit(cs, sr, entries[i].sid, event, payload)]

\* the emits of sendMessage
SendEmits(cs, sr, us, sid, msg) ==
  IF RoutedPrivately(msg)
    THEN EmitToEach(cs, sr, SelectSeq(us, LAMBDA e : e.username = msg.to),
                    "privateMessage", msg)
         \o << SocketEmit(sid, "privateMessage", msg) >>
    ELSE << IoToEmit(cs, sr, msg.room, "receiveMessage", msg) >>

\* messages.unshift(msg)
PushMessageFront(msgs, msg) == <<msg>> \o msgs

\* messages.push(msg)
PushMessage(msgs, msg) == Append(msgs, msg)

\* socket.on("sendMessage"), for a store that holds at most cap messages
SendMessage(sid, data, time, cap) ==
  /\ ~fault
  /\ time >= now
  /\ connState[sid] = "open"
  /\ last' = Event("sendMessage", sid, data)
  /\ IF ~HasUser(users, sid)
       THEN /\ ack' = [error |-> "Not joined"]
            /\ emitted' = <<>>
            /\ UNCHANGED messages
       ELSE LET msg == NewMessage(messages, UserOf(users, sid), data, time)
            IN /\ Len(messages) < cap
               /\ messages' = PushMessage(messages, msg)
               /\ emitted' = SendEmits(connState, socketRooms, users, sid, msg)
               /\ ack' = [status |-> "delivered", id |-> msg.id]
  /\ now' = IF HasUser(users, sid) THEN time ELSE now
  /\ response' = NoResponse
  /\ UNCHANGED <<connState, socketRooms, users, rooms, fault, target, query, client>>

\* the emits of typing
TypingEmits(cs, sr, us, sid, data) ==
  LET user == UserOf(us, sid)
  IN IF ~Falsy(data.isPrivate) /\ ~Falsy(data.to)
       THEN EmitToEach(cs, sr, SelectSeq(us, LAMBDA e : e.username = data.to),
                       "typing",
                       [username |-> user.username, isTyping |-> data.isTyping,
                        isPrivate |-> True])
       ELSE << SocketToEmit(cs, sr, sid, user.room, "typing",
                            [username |-> user.username,
                             isTyping |-> data.isTyping]) >>

\* socket.on("typing"): no callback
Typing(sid, data) ==
  /\ ~fault
  /\ connState[sid] = "open"
  /\ last' = Event("typing", sid, data)
  /\ ack' = NoAck
  /\ emitted' = IF HasUser(users, sid)
                  THEN TypingEmits(connState, socketRooms, users, sid, data)
                  ELSE <<>>
  /\ response' = NoResponse
  /\ UNCHANGED <<connState, socketRooms, users, messages, rooms, now, fault,
                 target, query, client>>

\* an acknowledgment that reports success for a missing message
NotFoundOk == [status |-> "ok"]

\* callback?.({ error: "Message not found" })
NotFound == [error |-> "Message not found"]

\* messages.find(m => m.id === messageId)
HasMessage(msgs, messageId) == \E i \in DOMAIN msgs : msgs[i].id = messageId
FindIndex(msgs, messageId) ==
  CHOOSE i \in DOMAIN msgs :
    /\ msgs[i].id = messageId
    /\ \A j \in DOMAIN msgs : msgs[j].id = messageId => i <= j

\* the emits of react and readMessage for the updated record msg
UpdateEmits(cs, sr, us, msg, event) ==
  IF RoutedPrivately(msg)
    THEN EmitToEach(cs, sr,
                    SelectSeq(us, LAMBDA e : e.username = msg.to
                                             \/ e.username = msg.sender),
                    event, msg)
    ELSE << IoToEmit(cs, sr, msg.room, event, msg) >>

\* a reaction that replaces the reactions the message had
AddReactionReplace(msg, username, reaction) ==
  [msg EXCEPT !.reactions = <<[user |-> username, reaction |-> reaction]>>]

\* msg.reactions.push({user, reaction})
AddReaction(msg, username, reaction) ==
  [msg EXCEPT !.reactions = Append(@, [user |-> username, reaction |-> reaction])]

\* socket.on("react"), for messages that hold at most cap reactions:
\* users[socket.id].username throws for a socket without a session, before
\* the push
React(sid, messageId, reaction, cap) ==
  /\ ~fault
  /\ connState[sid] = "open"
  /\ last' = Event("react", sid, [messageId |-> messageId, reaction |-> reaction])
  /\ IF ~HasMessage(messages, messageId)
       THEN /\ ack' = NotFound
            /\ emitted' = <<>>
            /\ UNCHANGED <<messages, fault>>
       ELSE IF ~HasUser(users, sid)
         THEN /\ fault' = TRUE
              /\ ack' = NoAck
              /\ emitted' = <<>>
              /\ UNCHANGED messages
         ELSE LET i == FindIndex(messages, messageId)
                  msg == AddReaction(messages[i], UserOf(users, sid).username,
                                     reaction)
              IN /\ Len(messages[i].reactions) < cap
                 /\ messages' = [messages EXCEPT ![i] = msg]
                 /\ emitted' = UpdateEmits(connState, socketRooms, users, msg,
                                           "reactionUpdate")
                 /\ ack' = [status |-> "ok"]
                 /\ UNCHANGED fault
  /\ response' = NoResponse
  /\ UNCHANGED <<connState, socketRooms, users, rooms, now, target, query, client>>

\* a read receipt that does not test the username
MarkReadUnchecked(msg, username) ==
  IF username \notin Range(msg.readBy)
    THEN [msg EXCEPT !.readBy = Append(@, username)]
    ELSE msg

\* a read that pushes the username whether or not readBy has it
MarkReadAgain(msg, username) ==
  IF ~Falsy(username)
    THEN [msg EXCEPT !.readBy = Append(@, username)]
    ELSE msg

\* if (username && !msg.readBy.includes(username)) msg.readBy.push(username)
MarkRead(msg, username) ==
  IF ~Falsy(username) /\ username \notin Range(msg.readBy)
    THEN [msg EXCEPT !.readBy = Append(@, username)]
    ELSE msg

\* users[socket.id]?.username
UsernameOrUndefined(us, sid) ==
  IF HasUser(us, sid) THEN UserOf(us, sid).username ELSE Undefined

\* socket.on("readMessage")
ReadMessage(sid, messageId) ==
  /\ ~fault
  /\ connState[sid] = "open"
  /\ last' = Event("readMessage", sid, [messageId |-> messageId])
  /\ IF ~HasMessage(messages, messageId)
       THEN /\ ack' = NotFound
            /\ emitted' = <<>>
            /\ UNCHANGED messages
       ELSE LET i == FindIndex(messages, messageId)
                msg == MarkRead(messages[i], UsernameOrUndefined(users, sid))
            IN /\ messages' = [messages EXCEPT ![i] = msg]
               /\ emitted' = UpdateEmits(connState, socketRooms, users, msg,
                                         "readUpdate")
               /\ ack' = [status |-> "ok"]
  /\ response' = NoResponse
  /\ UNCHANGED <<connState, socketRooms, users, rooms, now, fault, target, query, client>>

\* the key a message is counted under by getUnreadCounts, or Null
UnreadKey(m, u) ==
  IF m.isPrivate
    THEN IF m.to = u.username /\ u.username \notin Range(m.readBy)
           THEN m.sender ELSE Null
    ELSE IF m.room = u.room /\ u.username \notin Range(m.readBy)
           THEN m.room ELSE Null

\* the counts object of getUnreadCounts
UnreadCounts(msgs, u) ==
  LET keys == {UnreadKey(msgs[i], u) : i \in DOMAIN msgs} \ {Null}
  IN [k \in keys |->
        Cardinality({i \in DOMAIN msgs : UnreadKey(msgs[i], u) = k})]

\* socket.on("getUnreadCounts")
GetUnreadCounts(sid) ==
  /\ ~fault
  /\ connState[sid] = "open"
  /\ last' = Event("getUnreadCounts", sid, NoData)
  /\ emitted' = <<>>
  /\ ack' = IF ~HasUser(users, sid)
              THEN [error |-> "Not joined"]
              ELSE [counts |-> UnreadCounts(messages, UserOf(users, sid))]
  /\ response' = NoResponse
  /\ UNCHANGED <<connState, socketRooms, users, messages, rooms, now, fault,
                 target, query, client>>

\* a disconnect that empties the users table
DisconnectUsersClear(us, sid) == <<>>

\* a disconnect that leaves the users table alone
DisconnectUsersKeep(us, sid) == us

\* the users table after disconnect
DisconnectUsers(us, sid) == DeleteUser(us, sid)

\* socket.on("disconnect"): the transport has closed the socket and taken
\* it out of every room
Disconnect(sid) ==
  LET cs == [connState EXCEPT ![sid] = "closed"]
      sr == [socketRooms EXCEPT ![sid] = {}]
  IN /\ ~fault
     /\ connState[sid] = "open"
     /\ connState' = cs
     /\ socketRooms' = sr
     /\ ack' = NoAck
     /\ last' = Event("disconnect", sid, NoData)
     /\ IF HasUser(users, sid)
          THEN LET u == UserOf(users, sid)
                   us == DisconnectUsers(users, sid)
               IN /\ users' = us
                  /\ emitted' =
                       << IoToEmit(cs, sr, u.room, "onlineUsers",
                                   onlineUsersInRoom(us, u.room)),
                          IoToEmit(cs, sr, u.room, "notification",
                                   [username |-> u.username, verb |-> "left",
                                    room |-> u.room]) >>
                  /\ target' = [target EXCEPT ![sid] = Null]
          ELSE /\ emitted' = <<>>
               /\ UNCHANGED <<users, target>>
     /\ response' = NoResponse
     /\ UNCHANGED <<messages, rooms, now, fault, query, client>>

\* app.post("/rooms")
PostRooms(name) ==
  /\ ~fault
  /\ last' = Event("postRooms", Null, [name |-> name])
  /\ emitted' = <<>>
  /\ ack' = NoAck
  /\ IF Falsy(name)
       THEN /\ response' = [status |-> 400, body |-> [error |-> "room name required"]]
            /\ UNCHANGED rooms
       ELSE /\ rooms' = AddRoom(rooms, name)
            /\ response' = [status |-> 200, body |-> [rooms |-> AddRoom(rooms, name)]]
  /\ UNCHANGED <<connState, socketRooms, users, messages, now, fault, target,
                 query, client>>

\* ------------------------------------------------------------ history
\* parseInt on the query strings the model sends (a number default passes
\* through parseInt unchanged)
ParseInt(v) ==
  CASE v = "-1" -> 0 - 1
    [] v = "0" -> 0
    [] v = "1" -> 1
    [] v = "2" -> 2
    [] v = "2.5" -> 2
    [] v = "3" -> 3
    [] v = "4" -> 4
    [] v = "20" -> 20

Max(a, b) == IF a >= b THEN a ELSE b
Min(a, b) == IF a <= b THEN a ELSE b

\* Array.prototype.slice(start, end): a negative index counts from the end
Slice(seq, start, end) ==
  LET len == Len(seq)
      from == IF start < 0 THEN Max(len + start, 0) ELSE Min(start, len)
      to == IF end < 0 THEN Max(len + end, 0) ELSE Min(end, len)
  IN [i \in 1 .. Max(to - from, 0) |-> seq[from + i]]

\* the filter of GET /messages
QueryFilter(m, q) ==
  IF q.private = "true"
    THEN IF Falsy(q.peer)
           THEN FALSE
           ELSE m.isPrivate
                /\ \/ (m.sender = q.peer /\ m.to = q.requester)
                   \/ (m.sender = q.requester /\ m.to = q.peer)
                   \/ (m.sender = q.peer /\ m.to = q.requester)
    ELSE ~m.isPrivate
         /\ m.room = (IF q.room = Undefined THEN "global" ELSE q.room)

\* Array.prototype.sort with (a, b) => a.timestamp - b.timestamp: stable
SortByTimestamp(seq) ==
  LET before(j, i) ==
        \/ seq[j].timestamp < seq[i].timestamp
        \/ (seq[j].timestamp = seq[i].timestamp /\ j <= i)
      rank(i) == Cardinality({j \in DOMAIN seq : before(j, i)})
  IN [k \in DOMAIN seq |-> seq[CHOOSE i \in DOMAIN seq : rank(i) = k]]

\* the filtered history, oldest first
Filtered(msgs, q) == SortByTimestamp(SelectSeq(msgs, LAMBDA m : QueryFilter(m, q)))

PageNum(q) == Max(1, IF q.page = Undefined THEN 1 ELSE ParseInt(q.page))
Lim(q) == Max(1, IF q.limit = Undefined THEN 20 ELSE ParseInt(q.limit))

\* the slice bounds of a page
PageStart(n, pageNum, lim) == Max(0, n - pageNum * lim)
PageEnd(n, pageNum, lim) == n - (pageNum - 1) * lim

\* the body of the response of GET /messages
PageOf(msgs, q) ==
  LET filtered == Filtered(msgs, q)
      n == Len(filtered)
  IN [messages |-> Slice(filtered, PageStart(n, PageNum(q), Lim(q)),
                         PageEnd(n, PageNum(q), Lim(q))),
      total |-> n]

\* app.get("/messages")
GetMessages(q) ==
  /\ ~fault
  /\ query' = q
  /\ response' = [status |-> 200, body |-> PageOf(messages, q)]
  /\ last' = Event("getMessages", Null, NoData)
  /\ emitted' = <<>>
  /\ ack' = NoAck
  /\ UNCHANGED <<connState, socketRooms, users, messages, rooms, now, fault,
                 target, client>>

\* ------------------------------------------------------------ environments
\* Each specification runs the same handlers against a bounded environment:
\* the sockets that connect and the payloads their clients send.

\* two clients, alice on s1 and bob on s2; every handler
ChatSockets == {"s1", "s2"}
ChatJoins == {<<"s1", "alice">>, <<"s2", "bob">>, <<"s2", "">>}
ChatSends ==
  {[text |-> "hi", isPrivate |-> Undefined, to |-> Undefined],
   [text |-> "hi", isPrivate |-> True, to |-> "bob"],
   [text |-> "hi", isPrivate |-> True, to |-> Undefined]}
ChatTypings ==
  {[isTyping |-> True, isPrivate |-> Undefined, to |-> Undefined],
   [isTyping |-> True, isPrivate |-> True, to |-> "bob"]}
\* message ids a client may name: 0 is the id of no message
MessageIds == 0 .. MaxMsgs
Reactions == {"like"}

Next ==
  \/ \E s \in ChatSockets : Connection(s)
  \/ \E j \in ChatJoins, r \in JoinRooms : Join(j[1], j[2], r)
  \/ \E s \in ChatSockets, r \in RoomInputs : JoinRoom(s, r)
  \/ \E s \in ChatSockets, d \in ChatSends, t \in 0 .. MaxClock : SendMessage(s, d, t, MaxMsgs)
  \/ \E s \in ChatSockets, d \in ChatTypings : Typing(s, d)
  \/ \E s \in ChatSockets, m \in MessageIds, r \in Reactions : React(s, m, r, MaxReactions)
  \/ \E s \in ChatSockets, m \in MessageIds : ReadMessage(s, m)
  \/ \E s \in ChatSockets : GetUnreadCounts(s)
  \/ \E s \in ChatSockets : Disconnect(s)
  \/ \E n \in PostRoomNames : PostRooms(n)

Spec == Init /\ [][Next]_vars

\* three clients and the session handlers only; a client may claim any of
\* the names, among them a whitespace-only, an empty and a missing one
PresenceSockets == {"s1", "s2", "s3"}
PresenceUsernames == {"alice", " ", "", Undefined}
PresencePostNames == {"dev", "", Undefined}

NextPresence ==
  \/ \E s \in PresenceSockets : Connection(s)
  \/ \E s \in PresenceSockets, u \in PresenceUsernames, r \in JoinRooms : Join(s, u, r)
  \/ \E s \in PresenceSockets, r \in RoomInputs : JoinRoom(s, r)
  \/ \E s \in PresenceSockets : Disconnect(s)
  \/ \E n \in PresencePostNames : PostRooms(n)

SpecPresence == Init /\ [][NextPresence]_vars

\* alice on two devices (s1, s2) and bob on one (s3), all in the default room
DeviceJoins == {<<"s1", "alice">>, <<"s2", "alice">>, <<"s3", "bob">>}
DeviceSends ==
  {[text |-> "hi", isPrivate |-> Undefined, to |-> Undefined],
   [text |-> "hi", isPrivate |-> True, to |-> "bob"],
   [text |-> "hi", isPrivate |-> True, to |-> "alice"]}

NextDevices ==
  \/ \E s \in SocketIds : Connection(s)
  \/ \E j \in DeviceJoins : Join(j[1], j[2], Undefined)
  \/ \E s \in SocketIds, d \in DeviceSends, t \in 0 .. MaxClock : SendMessage(s, d, t, MaxMsgs)
  \/ \E s \in SocketIds, m \in MessageIds, r \in Reactions : React(s, m, r, MaxReactions)
  \/ \E s \in SocketIds, m \in MessageIds : ReadMessage(s, m)
  \/ \E s \in SocketIds : Disconnect(s)

SpecDevices == Init /\ [][NextDevices]_vars

\* alice on s1 and bob on s2 in the default room, a store of several
\* messages and a clock that moves between two sends
StoreMaxMsgs == 2
StoreMaxClock == 1
StoreJoins == {<<"s1", "alice">>, <<"s2", "bob">>}
StoreSends ==
  {[text |-> "hi", isPrivate |-> Undefined, to |-> Undefined],
   [text |-> "hi", isPrivate |-> True, to |-> "bob"]}

NextStore ==
  \/ \E s \in ChatSockets : Connection(s)
  \/ \E j \in StoreJoins : Join(j[1], j[2], Undefined)
  \/ \E s \in ChatSockets, d \in StoreSends, t \in 0 .. StoreMaxClock :
       SendMessage(s, d, t, StoreMaxMsgs)
  \/ \E s \in ChatSockets, m \in 0 .. StoreMaxMsgs, r \in Reactions : React(s, m, r, MaxReactions)
  \/ \E s \in ChatSockets, m \in 0 .. StoreMaxMsgs : ReadMessage(s, m)
  \/ \E s \in ChatSockets : Disconnect(s)

SpecStore == Init /\ [][NextStore]_vars

\* alice on s1 and bob on s2 in the default room, public messages at one
\* clock reading, and several reactions on one message
AppendMaxReactions == 2
AppendSends == {[text |-> "hi", isPrivate |-> Undefined, to |-> Undefined]}

NextAppend ==
  \/ \E s \in ChatSockets : Connection(s)
  \/ \E j \in StoreJoins : Join(j[1], j[2], Undefined)
  \/ \E s \in ChatSockets, d \in AppendSends : SendMessage(s, d, 0, StoreMaxMsgs)
  \/ \E s \in ChatSockets, m \in 0 .. StoreMaxMsgs, r \in Reactions :
       React(s, m, r, AppendMaxReactions)
  \/ \E s \in ChatSockets, m \in 0 .. StoreMaxMsgs : ReadMessage(s, m)

SpecAppend == Init /\ [][NextAppend]_vars

\* alice on s1 and bob on s2 exchange private events while carol on s3
\* names bob's socket id as the room of her join or joinRoom
IdJoins ==
  {<<"s1", "alice", Undefined>>, <<"s2", "bob", Undefined>>,
   <<"s3", "carol", Undefined>>, <<"s3", "carol", "s2">>}
IdRooms == {"s2"}
IdSends == {[text |-> "hi", isPrivate |-> True, to |-> "bob"]}
IdTypings == {[isTyping |-> True, isPrivate |-> True, to |-> "bob"]}

NextIds ==
  \/ \E s \in SocketIds : Connection(s)
  \/ \E j \in IdJoins : Join(j[1], j[2], j[3])
  \/ \E r \in IdRooms : JoinRoom("s3", r)
  \/ \E d \in IdSends : SendMessage("s1", d, 0, MaxMsgs)
  \/ \E d \in IdTypings : Typing("s1", d)
  \/ \E s \in ChatSockets, r \in Reactions : React(s, 1, r, MaxReactions)
  \/ \E s \in ChatSockets : ReadMessage(s, 1)

SpecIds == Init /\ [][NextIds]_vars

\* ------------------------------------------------------------ client
\* what the server holds, as opposed to the client's own state
serverVars ==
  <<connState, socketRooms, users, messages, rooms, now, emitted, ack, fault,
    last, target, response, query>>

\* the client has one socket object, so at most one server socket is open
Connected == \E s \in SocketIds : connState[s] = "open"
ClientSid == CHOOSE s \in SocketIds : connState[s] = "open"

\* handleLogin: socket.connect(); socket.emit("join", ...); setLoggedIn(true)
HandleLogin ==
  /\ ~client.loggedIn
  /\ ~Connected
  /\ client' = [loggedIn |-> TRUE, active |-> TRUE, join |-> TRUE]
  /\ UNCHANGED serverVars

\* handleLogout: socket.disconnect(); setLoggedIn(false)
HandleLogout ==
  /\ client.loggedIn
  /\ client' = [loggedIn |-> FALSE, active |-> FALSE, join |-> FALSE]
  /\ UNCHANGED serverVars

\* the socket connects, or reconnects after its transport dropped, under a
\* new socket id; the client's "connect" listener only sets isConnected
ClientConnect ==
  /\ client.active
  /\ ~Connected
  /\ \E s \in SocketIds : Connection(s)

\* the join buffered by handleLogin reaches the server
ClientJoin ==
  /\ client.join
  /\ Connected
  /\ ~HasUser(users, ClientSid)
  /\ Join(ClientSid, "alice", "global")

\* the send buffer is empty again
JoinSent ==
  /\ client.join
  /\ Connected
  /\ HasUser(users, ClientSid)
  /\ client' = [client EXCEPT !.join = FALSE]
  /\ UNCHANGED serverVars

\* the client's sendMessage, from the chat view
ClientSendMessage ==
  /\ client.loggedIn
  /\ ~client.join
  /\ Connected
  /\ SendMessage(ClientSid, [text |-> "hi", isPrivate |-> Undefined,
                             to |-> Undefined], 0, MaxMsgs)

\* the transport of the client's socket closes: after socket.disconnect(),
\* or by itself while the client stays active
ClientDisconnect ==
  /\ Connected
  /\ ~client.join
  /\ Disconnect(ClientSid)

\* localStorage may hold a username when the page loads
InitClient ==
  /\ connState = [s \in SocketIds |-> "idle"]
  /\ socketRooms = [s \in SocketIds |-> {}]
  /\ users = <<>>
  /\ messages = <<>>
  /\ rooms = <<"global">>
  /\ now = 0
  /\ emitted = <<>>
  /\ ack = NoAck
  /\ fault = FALSE
  /\ last = Event("init", Null, NoData)
  /\ target = [s \in SocketIds |-> Null]
  /\ response = NoResponse
  /\ query = NoQuery
  /\ client \in {NoClient, [NoClient EXCEPT !.loggedIn = TRUE]}

NextClient ==
  \/ HandleLogin
  \/ HandleLogout
  \/ ClientConnect
  \/ ClientJoin
  \/ JoinSent
  \/ ClientSendMessage
  \/ ClientDisconnect

SpecClient == InitClient /\ [][NextClient]_vars

\* the history endpoint against the stores a run of sends leaves behind:
\* short stores of any mix of public and private messages, and long stores
\* of public messages of the default room
MaxStore == 2
MaxLongStore == 45
MaxTime == 1

StoredMessage(id, sender, time, room, isPrivate, to) ==
  [id |-> id, text |-> "hi", file |-> Null, sender |-> sender,
   timestamp |-> time, room |-> room, isPrivate |-> isPrivate, to |-> to,
   reactions |-> <<>>, readBy |-> <<>>, deliveredTo |-> <<>>]

\* what one send can store: public in a room, or private between alice and bob
StoreShapes ==
  {[room |-> r, isPrivate |-> FALSE, sender |-> "alice", to |-> Null] :
     r \in {"global", "dev"}}
  \cup {[room |-> "global", isPrivate |-> TRUE, sender |-> "alice", to |-> "bob"],
        [room |-> "global", isPrivate |-> TRUE, sender |-> "bob", to |-> "alice"]}

ShortStores ==
  UNION {{[i \in 1 .. n |->
             StoredMessage(i, shape[i].sender, time[i], shape[i].room,
                           shape[i].isPrivate, shape[i].to)] :
            shape \in [1 .. n -> StoreShapes], time \in [1 .. n -> 0 .. MaxTime]} :
         n \in 0 .. MaxStore}

LongStores ==
  {[i \in 1 .. n |-> StoredMessage(i, "alice", i, "global", FALSE, Null)] :
     n \in {MaxLongStore}}

Queries ==
  [room : {Undefined, "dev"}, page : {Undefined, "0", "1", "2", "2.5", "3", "4"},
   limit : {Undefined, "-1", "1", "2", "20"}, private : {Undefined}, peer : {Undefined},
   requester : {Undefined}]
  \cup [room : {Undefined}, page : {"1", "2", "3"}, limit : {"1", "2"},
        private : {"true"}, peer : {Undefined, "bob"}, requester : {"alice"}]

InitQuery ==
  /\ connState = [s \in SocketIds |-> "idle"]
  /\ socketRooms = [s \in SocketIds |-> {}]
  /\ users = <<>>
  /\ messages \in ShortStores \cup LongStores
  /\ rooms = <<"global">>
  /\ now = 0
  /\ emitted = <<>>
  /\ ack = NoAck
  /\ fault = FALSE
  /\ last = Event("init", Null, NoData)
  /\ target = [s \in SocketIds |-> Null]
  /\ response = NoResponse
  /\ query = NoQuery
  /\ client = NoClient

NextQuery == \E q \in Queries : GetMessages(q)

SpecQuery == InitQuery /\ [][NextQuery]_vars

\* ------------------------------------------------------------ properties
\* socket s was handed the given event by the handler that ran last
Received(s, event) ==
  \E i \in DOMAIN emitted : emitted[i].event = event /\ s \in emitted[i].to

\* socket s was handed the given event with the given payload
ReceivedWith(s, event, payload) ==
  \E i \in DOMAIN emitted :
    emitted[i].event = event /\ s \in emitted[i].to /\ emitted[i].payload = payload

\* socket s has a session whose room is r
InRoom(s, r) == HasUser(users, s) /\ UserOf(users, s).room = r

\* socket s has a session whose username is u
IsUser(s, u) == HasUser(users, s) /\ UserOf(users, s).username = u

AckIs(field, v) == field \in DOMAIN ack /\ ack[field] = v
AckError == "error" \in DOMAIN ack

\* the event handled last was a send that was accepted
SentOk == last.op = "sendMessage" /\ AckIs("status", "delivered")

\* C1: a public sendMessage of a joined socket whose session room is R is
\* handed as receiveMessage to every socket with a session in R, and to no
\* socket without a session in R.
C1_PublicFanout ==
  (SentOk /\ Falsy(last.data.isPrivate)) =>
    \A s \in SocketIds :
      Received(s, "receiveMessage") <=> InRoom(s, UserOf(users, last.sid).room)

\* C2: a private sendMessage of user A to user B is handed to every socket
\* whose session username is A or B, and to no other socket.
C2_PrivateFanout ==
  (SentOk /\ ~Falsy(last.data.isPrivate) /\ ~Falsy(last.data.to)) =>
    \A s \in SocketIds :
      Received(s, "privateMessage")
        <=> (IsUser(s, UserOf(users, last.sid).username) \/ IsUser(s, last.data.to))

\* the rooms a session can be in
SessionRooms == {"global", "dev"}

\* C3: for every room R the list onlineUsersInRoom(R) has exactly one entry
\* for each socket whose latest successful join / joinRoom named R and which
\* has not disconnected since, and no other entry.
C3_ListInRoom ==
  \A r \in SessionRooms :
    LET members == {s \in SocketIds : target[s] = r}
    IN /\ Len(onlineUsersInRoom(users, r)) = Cardinality(members)
       /\ \A s \in members : InRoom(s, r)
       /\ \A i \in DOMAIN onlineUsersInRoom(users, r) :
            onlineUsersInRoom(users, r)[i].room = r

\* a socket re-joined into another room while a second socket stayed behind
\* and a third one has disconnected
C3_Witness ==
  \E s, t, x \in SocketIds :
    /\ s # t
    /\ target[s] = "dev" /\ "global" \in socketRooms[s]
    /\ target[t] = "global"
    /\ connState[x] = "closed"
    /\ Len(onlineUsersInRoom(users, "global")) = 1

\* the page number and page size a query asks for, when it names both as
\* whole numbers >= 1 (a missing limit is the default page size)
AsksPage(q) ==
  /\ q.page \in {"1", "2", "3", "4"}
  /\ q.limit \in {Undefined, "1", "2", "20"}

PageString == <<"1", "2", "3", "4">>

\* pages k, k-1, ..., 1 of a query, concatenated
RECURSIVE ConcatPages(_, _, _)
ConcatPages(msgs, q, k) ==
  IF k = 0 THEN <<>>
  ELSE PageOf(msgs, [q EXCEPT !.page = PageString[k]]).messages
       \o ConcatPages(msgs, q, k - 1)

\* the newest count elements of a sequence
Newest(seq, count) ==
  [i \in 1 .. Min(count, Len(seq)) |-> seq[Len(seq) - Min(count, Len(seq)) + i]]

\* C4: the response equals a repeated evaluation of the query, and the pages
\* k, k-1, ..., 1 concatenated are the newest min(n, k * pageSize) messages of
\* the filtered, ordered history, each once and none skipped.
C4_PagesCover ==
  (last.op = "getMessages" /\ AsksPage(query)) =>
    /\ response.body = PageOf(messages, query)
    /\ ConcatPages(messages, query, PageNum(query))
         = Newest(Filtered(messages, query), PageNum(query) * Lim(query))

\* C5: page p of size s of n filtered messages is total = n and the messages
\* at history indices max(0, n - p*s) .. n - (p-1)*s - 1, never more than s.
C5_PageIndices ==
  (last.op = "getMessages" /\ AsksPage(query)) =>
    LET hist == Filtered(messages, query)
        n == Len(hist)
        lo == Max(0, n - PageNum(query) * Lim(query))
        hi == n - (PageNum(query) - 1) * Lim(query) - 1
    IN /\ response.body.total = n
       /\ response.body.messages = [i \in 1 .. Max(hi - lo + 1, 0) |-> hist[lo + i]]
       /\ Len(response.body.messages) <= Lim(query)

\* the events that need a session
NeedSession == {"joinRoom", "sendMessage", "react", "readMessage", "getUnreadCounts"}

\* C6: an event that needs a session, sent on a socket without one, ends in
\* an error acknowledgment, with no exception escaping and nothing emitted.
C6_UnjoinedRejected ==
  (last.op \in NeedSession /\ ~HasUser(users, last.sid)) =>
    (~fault /\ AckError /\ emitted = <<>>)

\* C7: an event other than join handled for a socket without a session
\* leaves users, messages and rooms as they were.
C7_UnjoinedFrame ==
  [][(last'.op \in NeedSession \cup {"typing"} /\ ~HasUser(users, last'.sid))
       => UNCHANGED <<users, messages, rooms>>]_vars

\* a socket without a session marked a stored message as read
C7_Witness ==
  /\ last.op = "readMessage"
  /\ ~HasUser(users, last.sid)
  /\ HasMessage(messages, last.data.messageId)
  /\ AckIs("status", "ok")

\* String.prototype.trim() leaves nothing of the username
IsBlank(username) == username \in {Undefined, "", " "}

\* C8: join with a missing, empty or whitespace-only username ends in an
\* error acknowledgment, emits nothing and leaves no session of that name.
C8_BlankUsernameRejected ==
  (last.op = "join" /\ IsBlank(last.data.username)) =>
    /\ AckError
    /\ emitted = <<>>
    /\ ~IsUser(last.sid, last.data.username)

\* C9: after joinRoom from Old to New # Old, every socket still in Old is
\* handed Old's presence list (without the mover), every socket in New is
\* handed New's list (with the mover), and the mover has left Old.
C9_RoomChangePresence ==
  (last.op = "joinRoom" /\ AckIs("status", "ok") /\ last.data.from # last.data.room) =>
    /\ \A s \in SocketIds :
         InRoom(s, last.data.from) =>
           ReceivedWith(s, "onlineUsers", onlineUsersInRoom(users, last.data.from))
    /\ \A s \in SocketIds :
         InRoom(s, last.data.room) =>
           ReceivedWith(s, "onlineUsers", onlineUsersInRoom(users, last.data.room))
    /\ last.data.from \notin socketRooms[last.sid]

\* C10: the room of every session is in the rooms directory.
C10_SessionRoomKnown ==
  \A i \in DOMAIN users : users[i].room \in Range(rooms)

\* socket s is handed the given event and payload by the emits em
Gets(em, s, event, payload) ==
  \E i \in DOMAIN em :
    em[i].event = event /\ s \in em[i].to /\ em[i].payload = payload

\* socket s is handed the given event by the emits em
GetsEvent(em, s, event) ==
  \E i \in DOMAIN em : em[i].event = event /\ s \in em[i].to

\* the sockets whose session in the table us has room r
SessionsIn(us, r) == {s \in SocketIds : HasUser(us, s) /\ UserOf(us, s).room = r}

\* the sockets whose session in the table us has the given username
SessionsOf(us, username) ==
  {s \in SocketIds : HasUser(us, s) /\ UserOf(us, s).username = username}

\* C11: the disconnect of a socket with a session removes that socket's
\* entry from users and no other, leaves messages and rooms alone, and hands
\* every socket whose session is still in the room it left the presence
\* list without it and a "left" notification; the disconnect of a socket
\* without a session changes no table and emits nothing.
C11_Disconnect ==
  [][last'.op = "disconnect" =>
       IF HasUser(users, last'.sid)
         THEN LET u == UserOf(users, last'.sid)
                  list == onlineUsersInRoom(users', u.room)
              IN /\ ~HasUser(users', last'.sid)
                 /\ Len(users') = Len(users) - 1
                 /\ \A i \in DOMAIN users :
                      users[i].sid # last'.sid => users[i] \in Range(users')
                 /\ UNCHANGED <<messages, rooms>>
                 /\ \A s \in SessionsIn(users', u.room) :
                      /\ Gets(emitted', s, "onlineUsers", list)
                      /\ Gets(emitted', s, "notification",
                              [username |-> u.username, verb |-> "left",
                               room |-> u.room])
                 /\ \A i \in DOMAIN list : list[i].username # u.username
                      \/ \E s \in SessionsOf(users', u.username) : s # last'.sid
                 /\ \A i \in DOMAIN emitted' : last'.sid \notin emitted'[i].to
         ELSE /\ UNCHANGED <<users, messages, rooms>>
              /\ emitted' = <<>>]_vars

\* a socket with a session disconnected and a socket that stays in its room
\* was handed the shorter presence list and the notice
C11_Witness ==
  /\ last.op = "disconnect"
  /\ \E s \in SocketIds :
       /\ InRoom(s, "global")
       /\ Received(s, "notification")
       /\ ReceivedWith(s, "onlineUsers", onlineUsersInRoom(users, "global"))
       /\ Len(users) = 1

\* C12: an accepted sendMessage appends one record whose id is the id of no
\* record stored before, acknowledges {status: delivered, id} with that id,
\* and every event it emits is the message event carrying the stored record.
C12_SendAppendsOne ==
  [][(last'.op = "sendMessage" /\ "status" \in DOMAIN ack') =>
       LET new == messages'[Len(messages')]
       IN /\ Len(messages') = Len(messages) + 1
          /\ SubSeq(messages', 1, Len(messages)) = messages
          /\ \A i \in DOMAIN messages : messages[i].id # new.id
          /\ ack' = [status |-> "delivered", id |-> new.id]
          /\ emitted' # <<>>
          /\ \A i \in DOMAIN emitted' :
               /\ emitted'[i].event \in {"receiveMessage", "privateMessage"}
               /\ emitted'[i].payload = new
               /\ emitted'[i].payload.id = ack'.id]_vars

\* a second message was stored, acknowledged with its id and handed to a
\* socket other than the sender's
C12_Witness ==
  /\ SentOk
  /\ Len(messages) = 2
  /\ ack.id = messages[2].id
  /\ messages[1].id # messages[2].id
  /\ \E s \in SocketIds \ {last.sid} :
       Received(s, "receiveMessage") \/ Received(s, "privateMessage")

\* the sequence q has no element twice
NoRepeat(q) == \A i, j \in DOMAIN q : q[i] = q[j] => i = j

\* C13: no readBy holds a username twice, and a readMessage of a joined
\* user for a message whose readBy already has that user's name, from any
\* socket of that user, leaves the store as it was.
C13_ReadIdempotent ==
  /\ [](\A i \in DOMAIN messages : NoRepeat(messages[i].readBy))
  /\ [][(/\ last'.op = "readMessage"
         /\ HasUser(users, last'.sid)
         /\ HasMessage(messages, last'.data.messageId)
         /\ UserOf(users, last'.sid).username
              \in Range(messages[FindIndex(messages, last'.data.messageId)].readBy))
          => (UNCHANGED messages /\ AckIs("status", "ok")')]_vars

\* alice read a message again on socket s2, after bob had read it too
C13_Witness ==
  /\ last.op = "readMessage"
  /\ AckIs("status", "ok")
  /\ Len(messages) = 1
  /\ messages[1].readBy = <<"alice", "bob">>
  /\ IsUser(last.sid, "alice")
  /\ last.sid = "s2"
  /\ IsUser("s1", "alice")

\* C14: react and readMessage with a messageId of no stored message are
\* acknowledged with the "Message not found" error, leave the message store
\* as it was, emit nothing and raise no exception.
C14_MissingMessage ==
  [][(/\ last'.op \in {"react", "readMessage"}
      /\ ~HasMessage(messages, last'.data.messageId))
       => /\ ack' = [error |-> "Message not found"]
          /\ UNCHANGED messages
          /\ emitted' = <<>>
          /\ ~fault']_vars

\* a joined socket reacted to an id that the non-empty store does not hold
C14_Witness ==
  /\ last.op = "react"
  /\ HasUser(users, last.sid)
  /\ messages # <<>>
  /\ ~HasMessage(messages, last.data.messageId)
  /\ AckError

\* C15: a typing event of a joined socket c flagged private with a
\* recipient is handed to exactly the sockets whose session username is the
\* recipient; any other typing event of c is handed to exactly the sockets
\* whose session room is c's session room, c excepted.
C15_TypingTargets ==
  (last.op = "typing" /\ HasUser(users, last.sid)) =>
    \A s \in SocketIds :
      GetsEvent(emitted, s, "typing") <=>
        IF ~Falsy(last.data.isPrivate) /\ ~Falsy(last.data.to)
          THEN s \in SessionsOf(users, last.data.to)
          ELSE s \in SessionsIn(users, UserOf(users, last.sid).room) \ {last.sid}

\* C16: the reactionUpdate / readUpdate of an accepted react / readMessage
\* on message m is handed, when m is private, to exactly the sockets whose
\* session username is m's sender or m's recipient, and when m is public to
\* exactly the sockets whose session room is m's room.
C16_UpdateTargets ==
  (last.op \in {"react", "readMessage"} /\ AckIs("status", "ok")) =>
    LET m == messages[FindIndex(messages, last.data.messageId)]
        event == IF last.op = "react" THEN "reactionUpdate" ELSE "readUpdate"
    IN \A s \in SocketIds :
         GetsEvent(emitted, s, event) <=>
           IF m.isPrivate
             THEN s \in SessionsOf(users, m.sender) \cup SessionsOf(users, m.to)
             ELSE s \in SessionsIn(users, m.room)

\* C17: a socket that has disconnected has no session, is in no presence
\* list and is handed no event by any later handler; a send that is accepted
\* while some socket is closed still reaches the sender's own socket, and
\* no exception is raised by a disconnect.
C17_ClosedGetsNothing ==
  /\ \A s \in SocketIds :
       connState[s] = "closed" =>
         /\ ~HasUser(users, s)
         /\ target[s] = Null
         /\ \A i \in DOMAIN emitted : s \notin emitted[i].to
  /\ \A i \in DOMAIN emitted :
       emitted[i].event = "onlineUsers" =>
         \E r \in SessionRooms : emitted[i].payload = onlineUsersInRoom(users, r)
  /\ (SentOk /\ \E s \in SocketIds : connState[s] = "closed") =>
       (Received(last.sid, "receiveMessage") \/ Received(last.sid, "privateMessage"))
  /\ last.op = "disconnect" => ~fault

\* alice sent a private message to bob after bob's only socket had closed:
\* the send was accepted and reached alice's socket alone
C17_Witness ==
  /\ connState["s2"] = "closed"
  /\ SentOk
  /\ last.sid = "s1"
  /\ last.data.to = "bob"
  /\ Received("s1", "privateMessage")
  /\ ~Received("s2", "privateMessage")

\* C18: with a clock that never goes back, messages is in non-decreasing
\* timestamp order in every reachable state, so the sort of the history
\* query leaves the stored messages in insertion order.
C18_StoreOrdered ==
  /\ \A i, j \in DOMAIN messages :
       i <= j => messages[i].timestamp <= messages[j].timestamp
  /\ SortByTimestamp(messages) = messages

\* two sockets sent at different clock readings, and the first message was
\* reacted to or read after the second was stored
C18_Witness ==
  /\ Len(messages) = 2
  /\ messages[1].sender # messages[2].sender
  /\ messages[1].timestamp < messages[2].timestamp
  /\ last.op \in {"react", "readMessage"}
  /\ AckIs("status", "ok")
  /\ last.data.messageId = messages[1].id

\* the sequence p is the beginning of the sequence q
IsPrefix(p, q) == Len(p) <= Len(q) /\ SubSeq(q, 1, Len(p)) = p

\* the fields of a stored message that no handler writes
Immutable(m) ==
  <<m.id, m.text, m.file, m.sender, m.timestamp, m.room, m.isPrivate, m.to>>

\* C19: in every step each stored message stays at its position with its
\* id, text, file, sender, timestamp, room, isPrivate and to; its reactions
\* and its readBy keep what they held and grow only at the end; an accepted
\* react adds exactly one entry, to the message it names, and no other step
\* adds a reaction.
C19_AppendOnly ==
  [][/\ Len(messages') >= Len(messages)
     /\ \A i \in DOMAIN messages :
          /\ Immutable(messages'[i]) = Immutable(messages[i])
          /\ IsPrefix(messages[i].reactions, messages'[i].reactions)
          /\ IsPrefix(messages[i].readBy, messages'[i].readBy)
          /\ Len(messages'[i].reactions) =
               Len(messages[i].reactions)
                 + (IF /\ last'.op = "react"
                       /\ "status" \in DOMAIN ack'
                       /\ messages[i].id = last'.data.messageId
                      THEN 1 ELSE 0)]_vars

\* alice reacted twice with the same reaction to the first of two messages,
\* which has been read
C19_Witness ==
  /\ Len(messages) = 2
  /\ Len(messages[1].reactions) = 2
  /\ messages[1].reactions[1] = messages[1].reactions[2]
  /\ messages[1].readBy # <<>>
  /\ last.op = "react"
  /\ AckIs("status", "ok")

\* the room a join names: the default parameter stands in for undefined
JoinedRoom(data) == IF data.room = Undefined THEN "global" ELSE data.room

\* the number of names a step may add to rooms: one for an accepted join
\* or POST /rooms that names a room the directory lacks, none otherwise
Added(rs, ev, accepted) ==
  IF accepted /\ ev.op = "join" /\ JoinedRoom(ev.data) \notin Range(rs) THEN 1
  ELSE IF accepted /\ ev.op = "postRooms" /\ ev.data.name \notin Range(rs) THEN 1
  ELSE 0

\* C20: rooms always holds "global" and no name twice; every step keeps
\* the names it held, in place; an accepted join or POST /rooms adds its
\* name if and only if it was absent; POST /rooms without a name answers 400
\* and leaves rooms alone; no other step, disconnect included, changes rooms.
C20_RoomsDirectory ==
  /\ []("global" \in Range(rooms) /\ NoRepeat(rooms))
  /\ [][LET accepted ==
              \/ last'.op = "join" /\ "status" \in DOMAIN ack'
              \/ last'.op = "postRooms" /\ response'.status = 200
        IN /\ IsPrefix(rooms, rooms')
           /\ Len(rooms') = Len(rooms) + Added(rooms, last', accepted)
           /\ (last'.op = "join" /\ accepted) =>
                JoinedRoom(last'.data) \in Range(rooms')
           /\ last'.op = "postRooms" =>
                IF Falsy(last'.data.name)
                  THEN response'.status = 400 /\ rooms' = rooms
                  ELSE accepted /\ last'.data.name \in Range(rooms')]_vars

\* POST /rooms named dev after a socket closed and with no session left:
\* the directory holds the name, once
C20_Witness ==
  /\ last.op = "postRooms"
  /\ last.data.name = "dev"
  /\ response.status = 200
  /\ rooms = <<"global", "dev">>
  /\ users = <<>>
  /\ \E s \in SocketIds : connState[s] = "closed"

\* the broadcast rooms socket s is a member of, the room of its own id aside
NamedRooms(s) == socketRooms[s] \ {s}

\* C21: a socket with a session is a member of exactly one named broadcast
\* room, the room of its session, and a socket without a session is a
\* member of none, after any sequence of join, joinRoom and disconnect.
C21_MembershipAgrees ==
  \A s \in SocketIds :
    NamedRooms(s) = IF HasUser(users, s) THEN {UserOf(users, s).room} ELSE {}

\* C22: a message stored with isPrivate = true is handed to no socket as a
\* receiveMessage room broadcast, whatever the payload of the send, one
\* flagged private without a recipient included.
C22_PrivateNotBroadcast ==
  \A i \in DOMAIN emitted :
    emitted[i].event = "receiveMessage" => ~emitted[i].payload.isPrivate

\* the event of an emit was addressed to sockets by their ids
ById(e) ==
  \/ e.event = "privateMessage"
  \/ e.event = "typing" /\ "isPrivate" \in DOMAIN e.payload
  \/ e.event \in {"reactionUpdate", "readUpdate"} /\ RoutedPrivately(e.payload)

\* the usernames whose sockets the emit e was addressed to
Addressees(e) ==
  IF e.event = "typing" THEN {last.data.to}
  ELSE IF e.event = "privateMessage" THEN {e.payload.to}
  ELSE {e.payload.to, e.payload.sender}

\* C23: an event addressed to sockets by their ids is handed only to the
\* sockets of the users it names (and, for privateMessage, to the sending
\* socket), also when another socket has joined a room named by such an id.
C23_AddressedOnly ==
  \A i \in DOMAIN emitted :
    ById(emitted[i]) =>
      \A s \in emitted[i].to :
        \/ \E u \in Addressees(emitted[i]) : IsUser(s, u)
        \/ emitted[i].event = "privateMessage" /\ s = last.sid

\* C24: whenever the client is logged in, its socket is connected and its
\* join is not waiting to be sent, the server holds a session for that
\* socket, and a sendMessage of the logged-in client is not answered with an
\* error; this covers the socket that reconnected after its transport
\* dropped.
C24_LoggedInHasSession ==
  /\ (client.loggedIn /\ ~client.join /\ Connected) => HasUser(users, ClientSid)
  /\ (client.loggedIn /\ last.op = "sendMessage") => ~AckError
====
